---- MODULE Spec2Model ----
(***************************************************************************)
(* Model of circuit-helper/src/circuits/common.rs: the CircuitHelper trait *)
(* (setup_required, setup, prove, prove_local, verify) acting on the       *)
(* artifact store of crate::artifacts.                                     *)
(*                                                                         *)
(* An implementation of the trait is a record                              *)
(*   [name, degree, seed, cs]  =  (NAME, DEGREE, RNG_SEED, circuit()).     *)
(* Several implementations share one artifact store: parameters are keyed  *)
(* by (degree, verifier flag), keys and proofs by name.                    *)
(*                                                                         *)
(* A store slot is a set: {} when the artifact is absent, {v} when present.*)
(***************************************************************************)
EXTENDS Integers, Sequences, FiniteSets, TLC

\* ---- bounds -------------------------------------------------------------
NumNames == 2
MaxDegree == 2
MaxSeed == 1
NumCircuits == 2
MaxProvers == 4

Names == 1..NumNames
Degrees == 1..MaxDegree
Seeds == 1..MaxSeed
Circuits == 1..NumCircuits

\* The implementations of the trait: associated constants NAME, DEGREE,
\* RNG_SEED and the structure of ConcreteCircuit.
CircuitHelper == [name : Names, degree : Degrees, seed : Seeds, cs : Circuits]

\* The cohort sizes of a distributed proving run, and the prover indices.
CohortSizes == {n \in {1, 2, 4} : n <= MaxProvers}
Provers == 0..(MaxProvers - 1)

VARIABLES
    store,   \* the artifact store: params, vk, pk, proof
    last,    \* the most recent call: operation, implementation, outcome, effects
    trail,   \* length of the current setup -> prove_local -> verify chain
    session, \* the distributed proving run in progress, if any
    pc,      \* where each process of the run is inside prove(prover_index)
    wrote,   \* the store entries each process of the run has written
    twin,    \* the store and last call of a second, independent run
    conc,    \* the concurrent setup in progress, if any
    sp       \* where each process of the concurrent setup is inside setup()

vars == <<store, last, trail, session, pc, wrote, twin, conc, sp>>

\* ---- artifact store (crate::artifacts) ------------------------------------
ParamKeys == Degrees \X BOOLEAN

EmptyStore ==
    [params |-> [key \in ParamKeys |-> {}],
     vk     |-> [n \in Names |-> {}],
     pk     |-> [n \in Names |-> {}],
     proof  |-> [n \in Names |-> {}]]

params_kzg_exists(s, degree, verifier) == s.params[<<degree, verifier>>] # {}
vk_exists(s, name) == s.vk[name] # {}
pk_exists(s, name) == s.pk[name] # {}
proof_exists(s, name) == s.proof[name] # {}

read_params_kzg(s, degree, verifier) == CHOOSE v \in s.params[<<degree, verifier>>] : TRUE
read_vk(s, name) == CHOOSE v \in s.vk[name] : TRUE
read_pk(s, name) == CHOOSE v \in s.pk[name] : TRUE
read_proof(s, name) == CHOOSE v \in s.proof[name] : TRUE

write_params_kzg(s, degree, p, verifier) ==
    [s EXCEPT !.params[<<degree, verifier>>] = {p}]
write_vk(s, name, vk) == [s EXCEPT !.vk[name] = {vk}]
write_pk(s, name, pk) == [s EXCEPT !.pk[name] = {pk}]
write_proof(s, name, proof) == [s EXCEPT !.proof[name] = {proof}]

\* ---- the external engine (halo2_proofs) ------------------------------------
\* ParamsKZG::setup(DEGREE, XorShiftRng::from_seed(RNG_SEED)): a pure function
\* of the degree and the seed.
ParamsKZG_setup(degree, seed) == [k |-> degree, seed |-> seed, verifier |-> FALSE]

\* general_params.verifier_params().clone(): a projection of the same SRS.
verifier_params(p) == [p EXCEPT !.verifier = TRUE]

\* The structured reference string a parameter value belongs to.
srs(p) == <<p.k, p.seed>>

\* keygen_vk(&general_params, &circuit): bound to the SRS and the circuit
\* structure.
keygen_vk(p, cs) == [srs |-> srs(p), cs |-> cs]

\* keygen_pk(&general_params, vk.clone(), &circuit): embeds the verifying key.
keygen_pk(p, vk, cs) == [vk |-> vk, cs |-> cs]

\* transcript.finalize() after create_proof(params, pk, [circuit], ...):
\* the bytes written to the transcript. The proof is sound for (srs, key)
\* when the engine ran to completion on a satisfying instance of the
\* circuit the proving key was generated for, under the SRS of that key;
\* any other transcript is a byte string no verifier accepts.
finalize(p, pk, cs, sat, res) ==
    IF res = "Ok" /\ sat /\ pk.cs = cs /\ pk.vk.cs = cs /\ pk.vk.srs = srs(p)
    THEN [good |-> TRUE, srs |-> srs(p), key |-> pk.vk]
    ELSE [good |-> FALSE, complete |-> (res = "Ok")]

\* verify_proof(&verifier_params, &vk, SingleStrategy::new(&general_params),
\* &[&[]], transcript over the proof bytes).
verify_proof(vp, vk, gp, proof) ==
    IF /\ proof.good
       /\ proof.srs = srs(vp)
       /\ proof.key = vk
       /\ srs(gp) = srs(vp)
    THEN "Ok" ELSE "Err"

\* ---- CircuitHelper ---------------------------------------------------------
\* setup_required that also looks for the proof of the name.
setup_required_with_proof(s, f) ==
    \/ ~params_kzg_exists(s, f.degree, FALSE)
    \/ ~params_kzg_exists(s, f.degree, TRUE)
    \/ ~vk_exists(s, f.name)
    \/ ~pk_exists(s, f.name)
    \/ ~proof_exists(s, f.name)

\* setup_required that looks at the prover parameters only.
setup_required_params_only(s, f) ==
    ~params_kzg_exists(s, f.degree, FALSE)

\* setup_required that takes the verifying key as standing for the key pair.
setup_required_without_pk(s, f) ==
    \/ ~params_kzg_exists(s, f.degree, FALSE)
    \/ ~params_kzg_exists(s, f.degree, TRUE)
    \/ ~vk_exists(s, f.name)

setup_required(s, f) ==
    \/ ~params_kzg_exists(s, f.degree, FALSE)
    \/ ~params_kzg_exists(s, f.degree, TRUE)
    \/ ~vk_exists(s, f.name)
    \/ ~pk_exists(s, f.name)

\* The record of a call: the operation, the implementation it ran for, how
\* it ended ("Ok", "Err": the engine's Result returned to the caller,
\* "Abort": the call did not return), why, the store entries it wrote and
\* the engine capabilities it invoked, each with the engine's answer.
Call(op, f, pre, outcome, cause, written, engine, sat) ==
    [op |-> op, f |-> f, pre |-> pre, outcome |-> outcome, cause |-> cause,
     wrote |-> written, engine |-> engine, sat |-> sat]

\* The artifacts of implementation f that store s holds.
Present(s, f) ==
    (IF s.params[<<f.degree, FALSE>>] # {} THEN {"params"} ELSE {})
    \cup (IF s.params[<<f.degree, TRUE>>] # {} THEN {"vparams"} ELSE {})
    \cup (IF s.vk[f.name] # {} THEN {"vk"} ELSE {})
    \cup (IF s.pk[f.name] # {} THEN {"pk"} ELSE {})
    \cup (IF s.proof[f.name] # {} THEN {"proof"} ELSE {})

\* The four artifacts setup produces.
SetupArtifacts == {"params", "vparams", "vk", "pk"}

NoSession == [active |-> FALSE, n |-> 0, res |-> "none", sat |-> TRUE]

\* The first k of the four writes of setup, in the order of the code.
setup_writes_upto(s, f, general_params, vparams, vk, pk, k) ==
    LET w1 == write_params_kzg(s, f.degree, general_params, FALSE)
        w2 == write_params_kzg(w1, f.degree, vparams, TRUE)
        w3 == write_vk(w2, f.name, vk)
        w4 == write_pk(w3, f.name, pk)
    IN  CASE k = 0 -> s [] k = 1 -> w1 [] k = 2 -> w2 [] k = 3 -> w3 [] OTHER -> w4

\* The entries the first k writes of setup touch.
setup_written(k) ==
    CASE k = 0 -> {}
      [] k = 1 -> {"params"}
      [] k = 2 -> {"params", "vparams"}
      [] k = 3 -> {"params", "vparams", "vk"}
      [] OTHER -> {"params", "vparams", "vk", "pk"}

\* An artifact serialization that stamps the verifying key with the name it
\* is stored under.
setup_writes_named(s, f, general_params, vparams, vk, pk) ==
    setup_writes_upto(s, f, general_params, vparams,
                      [srs |-> vk.srs, cs |-> vk.cs, name |-> f.name], pk, 4)

\* An artifact serialization that also puts an empty transcript in the
\* proof entry.
setup_writes_with_proof(s, f, general_params, vparams, vk, pk) ==
    write_proof(setup_writes_upto(s, f, general_params, vparams, vk, pk, 4),
                f.name, [good |-> FALSE, complete |-> FALSE])

\* An artifact serialization that leaves out write_pk.
setup_writes_without_pk(s, f, general_params, vparams, vk, pk) ==
    setup_writes_upto(s, f, general_params, vparams, vk, pk, 3)

\* The artifact serialization of setup: all four writes.
setup_writes(s, f, general_params, vparams, vk, pk) ==
    setup_writes_upto(s, f, general_params, vparams, vk, pk, 4)

\* A setup that serializes the parameters as soon as it has them, before
\* key generation.
writes_before_keygen_params == Cardinality({"params", "vparams"})

\* The writes setup has made when key generation is reached: none, the
\* artifact serialization comes after keygen_vk and keygen_pk.
writes_before_keygen == 0

\* setup(): kg is the engine's answer to key generation.
setup(f, kg) ==
    /\ ~session.active
    /\ ~conc.active
    /\ UNCHANGED <<session, pc, wrote, twin, conc, sp>>
    /\ IF ~setup_required(store, f)
       THEN /\ kg = "Ok"
            /\ UNCHANGED store
            /\ last' = Call("setup", f, Present(store, f), "Ok", "none", {}, <<>>, TRUE)
            /\ trail' = 1
       ELSE LET general_params == ParamsKZG_setup(f.degree, f.seed)
                vparams == verifier_params(general_params)
                vk == keygen_vk(general_params, f.cs)
                pk == keygen_pk(general_params, vk, f.cs)
            IN  CASE kg = "VkErr" ->
                       \* keygen_vk(..).unwrap() panics
                       /\ store' = setup_writes_upto(store, f, general_params, vparams,
                                                     vk, pk, writes_before_keygen)
                       /\ last' = Call("setup", f, Present(store, f), "Abort", "EngineFailure",
                                       setup_written(writes_before_keygen),
                                       <<<<"keygen_vk", "Err">>>>, TRUE)
                       /\ trail' = 0
                  [] kg = "PkErr" ->
                       \* keygen_pk(..).unwrap() panics
                       /\ store' = setup_writes_upto(store, f, general_params, vparams,
                                                     vk, pk, writes_before_keygen)
                       /\ last' = Call("setup", f, Present(store, f), "Abort", "EngineFailure",
                                       setup_written(writes_before_keygen),
                                       <<<<"keygen_vk", "Ok">>, <<"keygen_pk", "Err">>>>, TRUE)
                       /\ trail' = 0
                  [] OTHER ->
                       /\ store' = setup_writes(store, f, general_params, vparams, vk, pk)
                       /\ last' = Call("setup", f, Present(store, f), "Ok", "none",
                                       setup_written(4),
                                       <<<<"keygen_vk", "Ok">>, <<"keygen_pk", "Ok">>>>, TRUE)
                       /\ trail' = 1

\* setup() cut short: the process stops after the first k < 4 writes of the
\* artifact serialization.
setup_interrupted(f, k) ==
    /\ ~session.active
    /\ ~conc.active
    /\ UNCHANGED <<session, pc, wrote, twin, conc, sp>>
    /\ setup_required(store, f)
    /\ LET general_params == ParamsKZG_setup(f.degree, f.seed)
           vparams == verifier_params(general_params)
           vk == keygen_vk(general_params, f.cs)
           pk == keygen_pk(general_params, vk, f.cs)
       IN  /\ store' = setup_writes_upto(store, f, general_params, vparams, vk, pk, k)
           /\ last' = Call("setup", f, Present(store, f), "Abort", "Interrupted",
                           setup_written(k),
                           <<<<"keygen_vk", "Ok">>, <<"keygen_pk", "Ok">>>>, TRUE)
           /\ trail' = 0

\* The artifacts prove and prove_local deserialize before calling the engine.
\* The reads hand back the artifact itself, not a Result: with an artifact
\* absent there is nothing to hand back and the call does not return.
prover_artifacts_read(s, f) ==
    /\ params_kzg_exists(s, f.degree, FALSE)
    /\ pk_exists(s, f.name)

\* prove_local(): sat says whether circuit() carries a satisfying witness,
\* res is the engine's answer to create_proof.
prove_local(f, sat, res) ==
    /\ ~session.active
    /\ ~conc.active
    /\ UNCHANGED <<session, pc, wrote, twin, conc, sp>>
    /\ IF ~prover_artifacts_read(store, f)
       THEN /\ sat /\ res = "Ok"
            /\ UNCHANGED store
            /\ last' = Call("prove_local", f, Present(store, f), "Abort", "MissingArtifact", {}, <<>>, sat)
            /\ trail' = 0
       ELSE LET general_params == read_params_kzg(store, f.degree, FALSE)
                pk == read_pk(store, f.name)
                proof == finalize(general_params, pk, f.cs, sat, res)
            IN  /\ store' = write_proof(store, f.name, proof)
                /\ last' = Call("prove_local", f, Present(store, f), res,
                                IF res = "Ok" THEN "none" ELSE "EngineFailure",
                                {"proof"}, <<<<"create_proof", res>>>>, sat)
                /\ trail' = IF trail = 1 /\ last.f = f /\ res = "Ok" /\ sat
                            THEN 2 ELSE 0

\* The artifacts verify deserializes before calling the engine.
verifier_artifacts_read(s, f) ==
    /\ params_kzg_exists(s, f.degree, FALSE)
    /\ params_kzg_exists(s, f.degree, TRUE)
    /\ vk_exists(s, f.name)
    /\ proof_exists(s, f.name)

\* A verify that hands whatever proof bytes it finds, none included, to the
\* engine.
verify_outcome_unchecked_proof(s, f) ==
    IF \/ ~params_kzg_exists(s, f.degree, FALSE)
       \/ ~params_kzg_exists(s, f.degree, TRUE)
       \/ ~vk_exists(s, f.name)
    THEN [outcome |-> "Abort", cause |-> "MissingArtifact", engine |-> <<>>]
    ELSE LET general_params == read_params_kzg(s, f.degree, FALSE)
             vparams == read_params_kzg(s, f.degree, TRUE)
             vk == read_vk(s, f.name)
             result == IF proof_exists(s, f.name)
                       THEN verify_proof(vparams, vk, general_params,
                                         read_proof(s, f.name))
                       ELSE "Err"
         IN  [outcome |-> result,
              cause |-> IF result = "Ok" THEN "none" ELSE "EngineFailure",
              engine |-> <<<<"verify_proof", result>>>>]

\* A verify that checks the proof against the verifying key the proof was
\* made with instead of the verifying key in the store.
verify_outcome_proof_key(s, f) ==
    IF ~verifier_artifacts_read(s, f)
    THEN [outcome |-> "Abort", cause |-> "MissingArtifact", engine |-> <<>>]
    ELSE LET general_params == read_params_kzg(s, f.degree, FALSE)
             vparams == read_params_kzg(s, f.degree, TRUE)
             proof == read_proof(s, f.name)
             vk == IF proof.good THEN proof.key ELSE read_vk(s, f.name)
             result == verify_proof(vparams, vk, general_params, proof)
         IN  [outcome |-> result,
              cause |-> IF result = "Ok" THEN "none" ELSE "EngineFailure",
              engine |-> <<<<"verify_proof", result>>>>]

\* A verify that calls the engine a second time when the first call rejects.
verify_outcome_retry(s, f) ==
    IF ~verifier_artifacts_read(s, f)
    THEN [outcome |-> "Abort", cause |-> "MissingArtifact", engine |-> <<>>]
    ELSE LET general_params == read_params_kzg(s, f.degree, FALSE)
             vparams == read_params_kzg(s, f.degree, TRUE)
             vk == read_vk(s, f.name)
             proof == read_proof(s, f.name)
             first == verify_proof(vparams, vk, general_params, proof)
             result == IF first = "Ok" THEN first
                       ELSE verify_proof(vparams, vk, general_params, proof)
         IN  [outcome |-> result,
              cause |-> IF result = "Ok" THEN "none" ELSE "EngineFailure",
              engine |-> IF first = "Ok" THEN <<<<"verify_proof", first>>>>
                         ELSE <<<<"verify_proof", first>>, <<"verify_proof", result>>>>]

\* How verify() ends on store s: the four reads, then the engine's
\* verify_proof, whose Result is returned as it is.
verify_outcome(s, f) ==
    IF ~verifier_artifacts_read(s, f)
    THEN [outcome |-> "Abort", cause |-> "MissingArtifact", engine |-> <<>>]
    ELSE LET general_params == read_params_kzg(s, f.degree, FALSE)
             vparams == read_params_kzg(s, f.degree, TRUE)
             vk == read_vk(s, f.name)
             proof == read_proof(s, f.name)
             result == verify_proof(vparams, vk, general_params, proof)
         IN  [outcome |-> result,
              cause |-> IF result = "Ok" THEN "none" ELSE "EngineFailure",
              engine |-> <<<<"verify_proof", result>>>>]

\* verify()
verify(f) ==
    /\ ~session.active
    /\ ~conc.active
    /\ UNCHANGED <<store, session, pc, wrote, twin, conc, sp>>
    /\ LET r == verify_outcome(store, f)
       IN  /\ last' = Call("verify", f, Present(store, f), r.outcome, r.cause,
                           {}, r.engine, TRUE)
           /\ trail' = IF trail = 2 /\ last.f = f THEN 3 ELSE 0

\* ---- prove(prover_index): one distributed run of n processes ---------------
\* n processes with prover indices 0..n-1 each call prove(prover_index) for
\* the same implementation f.
start_run(f, n) ==
    /\ ~session.active
    /\ session' = [active |-> TRUE, n |-> n, res |-> "none", sat |-> TRUE]
    /\ pc' = [i \in Provers |-> IF i < n THEN "Idle" ELSE "Off"]
    /\ wrote' = [i \in Provers |-> {}]
    /\ last' = Call("prove", f, Present(store, f), "Running", "none", {}, <<>>, TRUE)
    /\ trail' = 0
    /\ ~conc.active
    /\ UNCHANGED <<store, twin, conc, sp>>

\* A prove whose leader serializes its transcript before the engine call
\* instead of after it.
prove_enter_writes_first(i) ==
    /\ session.active
    /\ pc[i] = "Idle"
    /\ pc' = [pc EXCEPT ![i] = IF prover_artifacts_read(store, last.f)
                               THEN "Computing" ELSE "Aborted"]
    /\ IF i = 0 /\ prover_artifacts_read(store, last.f)
       THEN /\ store' = write_proof(store, last.f.name,
                                    [good |-> FALSE, complete |-> FALSE])
            /\ wrote' = [wrote EXCEPT ![i] = wrote[i] \cup {"proof"}]
       ELSE UNCHANGED <<store, wrote>>
    /\ UNCHANGED <<last, trail, session, twin, conc, sp>>

\* Lines 95-106: process i deserializes its artifacts and enters the
\* engine's distributed proving call.
prove_enter(i) ==
    /\ session.active
    /\ pc[i] = "Idle"
    /\ pc' = [pc EXCEPT ![i] = IF prover_artifacts_read(store, last.f)
                               THEN "Computing" ELSE "Aborted"]
    /\ UNCHANGED <<store, last, trail, session, wrote, twin, conc, sp>>

\* create_proof_distributed: a blocking call that comes back, with success
\* or with an engine error, once the whole cohort has gone through it.
create_proof_distributed(res, sat) ==
    /\ session.active
    /\ \A i \in Provers : i < session.n => pc[i] = "Computing"
    /\ session' = [session EXCEPT !.res = res, !.sat = sat]
    /\ pc' = [i \in Provers |-> IF i < session.n THEN "Returned" ELSE "Off"]
    /\ UNCHANGED <<store, last, trail, wrote, twin, conc, sp>>

\* A leader test that lets the first two indices through.
is_leader_or_next(prover_index) == prover_index <= 1

\* Line 128: only the leader serializes the proof.
is_leader(prover_index) == prover_index = 0

\* Lines 127-135: after the engine call, the leader finalizes the
\* transcript and writes the proof; every process returns the engine's result.
prove_return(i) ==
    /\ session.active
    /\ pc[i] = "Returned"
    /\ pc' = [pc EXCEPT ![i] = IF session.res = "Ok" THEN "Done" ELSE "Failed"]
    /\ IF is_leader(i)
       THEN LET f == last.f
                general_params == read_params_kzg(store, f.degree, FALSE)
                pk == read_pk(store, f.name)
                proof == finalize(general_params, pk, f.cs, session.sat, session.res)
            IN  /\ store' = write_proof(store, f.name, proof)
                /\ wrote' = [wrote EXCEPT ![i] = @ \cup {"proof"}]
       ELSE UNCHANGED <<store, wrote>>
    /\ UNCHANGED <<last, trail, session, twin, conc, sp>>

\* Every process of the run has returned or aborted.
end_run ==
    /\ session.active
    /\ \A i \in Provers : i < session.n => pc[i] \in {"Done", "Failed", "Aborted"}
    /\ last' = Call("prove", last.f, last.pre,
                    CASE pc[0] = "Done" -> "Ok"
                      [] pc[0] = "Failed" -> "Err"
                      [] OTHER -> "Abort",
                    CASE pc[0] = "Done" -> "none"
                      [] pc[0] = "Failed" -> "EngineFailure"
                      [] OTHER -> "MissingArtifact",
                    wrote[0],
                    IF pc[0] = "Aborted" THEN <<>>
                    ELSE <<<<"create_proof", session.res>>>>,
                    session.sat)
    /\ session' = NoSession
    /\ pc' = [i \in Provers |-> "Off"]
    /\ wrote' = [i \in Provers |-> {}]
    /\ UNCHANGED <<store, trail, twin, conc, sp>>

\* ---- two processes inside setup() at the same time -----------------------
SetupProcs == {1, 2}

NoConc == [active |-> FALSE, f |-> CHOOSE f \in CircuitHelper : TRUE, expected |-> EmptyStore]

\* The store a single run of setup leaves when it starts from s.
setup_alone(s, f) ==
    IF ~setup_required(s, f) THEN s
    ELSE LET general_params == ParamsKZG_setup(f.degree, f.seed)
             vparams == verifier_params(general_params)
             vk == keygen_vk(general_params, f.cs)
             pk == keygen_pk(general_params, vk, f.cs)
         IN  setup_writes(s, f, general_params, vparams, vk, pk)

\* The k-th existence check of setup_required, in the order the || chain
\* evaluates them.
setup_required_check(s, f, k) ==
    CASE k = 1 -> params_kzg_exists(s, f.degree, FALSE)
      [] k = 2 -> params_kzg_exists(s, f.degree, TRUE)
      [] k = 3 -> vk_exists(s, f.name)
      [] OTHER -> pk_exists(s, f.name)

\* A serialization that leaves an artifact it finds in the store as it is.
setup_write_if_missing(s, f, general_params, vparams, vk, pk, k) ==
    CASE k = 1 -> IF params_kzg_exists(s, f.degree, FALSE) THEN s
                  ELSE write_params_kzg(s, f.degree, general_params, FALSE)
      [] k = 2 -> IF params_kzg_exists(s, f.degree, TRUE) THEN s
                  ELSE write_params_kzg(s, f.degree, vparams, TRUE)
      [] k = 3 -> IF vk_exists(s, f.name) THEN s ELSE write_vk(s, f.name, vk)
      [] OTHER -> IF pk_exists(s, f.name) THEN s ELSE write_pk(s, f.name, pk)

\* The k-th write of setup alone, each one atomic replacement of one entry.
setup_write(s, f, general_params, vparams, vk, pk, k) ==
    CASE k = 1 -> write_params_kzg(s, f.degree, general_params, FALSE)
      [] k = 2 -> write_params_kzg(s, f.degree, vparams, TRUE)
      [] k = 3 -> write_vk(s, f.name, vk)
      [] OTHER -> write_pk(s, f.name, pk)

\* Two processes call setup() of the same implementation.
start_setups(f) ==
    /\ ~session.active
    /\ ~conc.active
    /\ conc' = [active |-> TRUE, f |-> f, expected |-> setup_alone(store, f)]
    /\ sp' = [p \in SetupProcs |-> [at |-> "check", k |-> 0]]
    /\ last' = Call("setup", f, Present(store, f), "Running", "none", {}, <<>>, TRUE)
    /\ trail' = 0
    /\ UNCHANGED <<store, session, pc, wrote, twin>>

\* Process p evaluates the next operand of setup_required(): a missing
\* artifact decides that setup is required, four present ones that it is
\* not, and then setup() returns at once.
setup_check(p) ==
    /\ conc.active
    /\ sp[p].at = "check"
    /\ sp' = [sp EXCEPT ![p] =
                 IF ~setup_required_check(store, conc.f, sp[p].k + 1)
                 THEN [at |-> "write", k |-> 0]
                 ELSE IF sp[p].k + 1 = Cardinality(SetupArtifacts)
                      THEN [at |-> "done", k |-> 0]
                      ELSE [at |-> "check", k |-> sp[p].k + 1]]
    /\ UNCHANGED <<store, last, trail, session, pc, wrote, twin, conc>>

\* Process p, having generated parameters and keys, makes its next write.
setup_step(p) ==
    /\ conc.active
    /\ sp[p].at = "write"
    /\ LET f == conc.f
           general_params == ParamsKZG_setup(f.degree, f.seed)
           vparams == verifier_params(general_params)
           vk == keygen_vk(general_params, f.cs)
           pk == keygen_pk(general_params, vk, f.cs)
       IN  store' = setup_write(store, f, general_params, vparams, vk, pk, sp[p].k + 1)
    /\ sp' = [sp EXCEPT ![p] =
                 IF sp[p].k + 1 = Cardinality(SetupArtifacts)
                 THEN [at |-> "done", k |-> sp[p].k + 1]
                 ELSE [at |-> "write", k |-> sp[p].k + 1]]
    /\ UNCHANGED <<last, trail, session, pc, wrote, twin, conc>>

\* Both processes have returned from setup().
end_setups ==
    /\ conc.active
    /\ \A p \in SetupProcs : sp[p].at = "done"
    /\ last' = Call("setup", conc.f, last.pre, "Ok", "none",
                    UNION {setup_written(sp[p].k) : p \in SetupProcs},
                    <<>>, TRUE)
    /\ conc' = NoConc
    /\ sp' = [p \in SetupProcs |-> [at |-> "off", k |-> 0]]
    /\ UNCHANGED <<store, trail, session, pc, wrote, twin>>

\* ---- a second, independent store -------------------------------------------
\* The caller turns to the other of the two stores.
other_store ==
    /\ ~session.active
    /\ ~conc.active
    /\ twin' = [store |-> store, last |-> last]
    /\ store' = twin.store
    /\ last' = twin.last
    /\ trail' = 0
    /\ UNCHANGED <<session, pc, wrote, conc, sp>>

\* ---- specification -------------------------------------------------------
NoCall ==
    Call("none", [name |-> 1, degree |-> 1, seed |-> 1, cs |-> 1],
         {}, "Ok", "none", {}, <<>>, TRUE)

Init ==
    /\ store = EmptyStore
    /\ last = NoCall
    /\ trail = 0
    /\ session = NoSession
    /\ pc = [i \in Provers |-> "Off"]
    /\ wrote = [i \in Provers |-> {}]
    /\ twin = [store |-> EmptyStore, last |-> NoCall]
    /\ conc = NoConc
    /\ sp = [p \in SetupProcs |-> [at |-> "off", k |-> 0]]

Setup == \E f \in CircuitHelper, kg \in {"Ok", "VkErr", "PkErr"} : setup(f, kg)
SetupInterrupted == \E f \in CircuitHelper, k \in 1..3 : setup_interrupted(f, k)
ProveLocal == \E f \in CircuitHelper, sat \in BOOLEAN, res \in {"Ok", "Err"} :
                  prove_local(f, sat, res)
Verify == \E f \in CircuitHelper : verify(f)
StartRun == \E f \in CircuitHelper, n \in CohortSizes : start_run(f, n)
ProveEnter == \E i \in Provers : prove_enter(i)
EngineReturns == \E res \in {"Ok", "Err"}, sat \in BOOLEAN : create_proof_distributed(res, sat)
ProveReturn == \E i \in Provers : prove_return(i)
EndRun == end_run
SetupFromEmpty == store = EmptyStore /\ Setup
OtherStore == other_store
StartSetups == \E f \in CircuitHelper : start_setups(f)
SetupCheck == \E p \in SetupProcs : setup_check(p)
SetupStep == \E p \in SetupProcs : setup_step(p)
EndSetups == end_setups

\* Calls made one after the other by one caller.
Next ==
    \/ Setup
    \/ ProveLocal
    \/ Verify

Spec == Init /\ [][Next]_vars

\* The same calls, with setup possibly cut short between two of its writes.
NextCrash ==
    \/ Setup
    \/ SetupInterrupted
    \/ ProveLocal
    \/ Verify

SpecCrash == Init /\ [][NextCrash]_vars

\* Distributed proving runs over a store that setup has filled.
NextDist ==
    \/ Setup
    \/ StartRun
    \/ ProveEnter
    \/ EngineReturns
    \/ ProveReturn
    \/ EndRun

SpecDist == Init /\ [][NextDist]_vars

\* Local calls and distributed runs together.
NextAll ==
    \/ Setup
    \/ ProveLocal
    \/ Verify
    \/ StartRun
    \/ ProveEnter
    \/ EngineReturns
    \/ ProveReturn
    \/ EndRun

SpecAll == Init /\ [][NextAll]_vars

\* Two independent runs of setup, each from an empty store of its own.
NextTwin ==
    \/ SetupFromEmpty
    \/ OtherStore

SpecTwin == Init /\ [][NextTwin]_vars

\* Setup calls one at a time, and two processes inside setup() at once.
NextConc ==
    \/ Setup
    \/ SetupInterrupted
    \/ StartSetups
    \/ SetupCheck
    \/ SetupStep
    \/ EndSetups

SpecConc == Init /\ [][NextConc]_vars

\* ---- properties ------------------------------------------------------------

\* C1. In a distributed run only the process with prover index 0 writes to
\* the artifact store: every change of the store during a run is made by
\* the step in which process 0 leaves prove, and no process with another
\* index ever has a written entry, whatever the engine returned.
C1_LeaderExclusive ==
    [][(session.active /\ session'.active) =>
          /\ \A i \in Provers : i # 0 => wrote'[i] = {}
          /\ store' # store =>
                /\ pc[0] = "Returned" /\ pc'[0] # "Returned"
                /\ \A i \in Provers : i # 0 => pc'[i] = pc[i]
                /\ \A k \in {"params", "vk", "pk"} : store'[k] = store[k]]_vars

\* A run of four processes in which every process has returned, followers
\* included, and the leader has written the proof.
C1_Witness ==
    /\ session.active
    /\ session.n = 4
    /\ \A i \in Provers : i < session.n => pc[i] \in {"Done", "Failed"}
    /\ wrote[0] = {"proof"}

\* C2 (as claimed). prove_local writes the proof when the engine succeeds
\* and writes nothing when the engine returns an error.
C2_WritesOnlyOnSuccess ==
    last.op = "prove_local" =>
        /\ last.outcome = "Ok" => "proof" \in last.wrote
        /\ last.outcome = "Err" => last.wrote = {}

\* C3 (as claimed). When the engine's distributed proving call returns an
\* error, the leader writes nothing.
C3_NoWriteOnFailure ==
    (session.active /\ session.res = "Err") => wrote[0] = {}

\* C4. A setup call made when all four artifacts of the implementation are
\* present writes nothing and leaves the whole store as it was.
C4_SetupIdempotent ==
    [][(last'.op = "setup" /\ SetupArtifacts \subseteq Present(store, last'.f)) =>
          /\ store' = store
          /\ last'.wrote = {}
          /\ last'.outcome = "Ok"]_vars

\* A setup call that found the four artifacts present has returned.
C4_Witness ==
    /\ last.op = "setup"
    /\ SetupArtifacts \subseteq last.pre
    /\ last.outcome = "Ok"

\* C5. setup_required is true exactly when one of the four setup artifacts
\* is absent, and adding or removing the proof does not change it.
C5_SetupRequiredIff ==
    \A f \in CircuitHelper :
        /\ setup_required(store, f) <=> ~(SetupArtifacts \subseteq Present(store, f))
        /\ \A p \in {{}, {[good |-> FALSE, complete |-> TRUE]}} :
              setup_required([store EXCEPT !.proof[f.name] = p], f)
                  = setup_required(store, f)

\* One implementation has its keys and a proof but no parameters and needs
\* setup, another has a verifying key without a proving key, and a third,
\* whose proof is stored, needs no setup.
C5_Witness ==
    /\ \E f \in CircuitHelper :
          /\ setup_required(store, f)
          /\ {"vk", "pk", "proof"} \subseteq Present(store, f)
          /\ "params" \notin Present(store, f)
    /\ \E h \in CircuitHelper :
          /\ "vk" \in Present(store, h)
          /\ "pk" \notin Present(store, h)
    /\ \E g \in CircuitHelper :
          /\ ~setup_required(store, g)
          /\ "proof" \in Present(store, g)

\* C6. After a setup call that returned, all four artifacts of its
\* implementation are in the store and setup_required is false.
C6_SetupCompletes ==
    (last.op = "setup" /\ last.outcome = "Ok") =>
        /\ SetupArtifacts \subseteq Present(store, last.f)
        /\ ~setup_required(store, last.f)

\* A setup call has returned that started with only part of the four
\* artifacts present and wrote all four.
C6_Witness ==
    /\ last.op = "setup"
    /\ last.outcome = "Ok"
    /\ last.pre \cap SetupArtifacts = {"params", "vparams", "vk"}
    /\ last.wrote = SetupArtifacts

\* C7 (as claimed). prove_local without the prover parameters or the
\* proving key returns a MissingArtifact error to its caller and writes
\* nothing.
C7_MissingArtifactReturned ==
    (last.op = "prove_local" /\ ~({"params", "pk"} \subseteq last.pre)) =>
        /\ last.outcome = "Err"
        /\ last.cause = "MissingArtifact"
        /\ last.wrote = {}

C9_RoundTrip ==
    trail = 3 => last.outcome = "Ok"

\* C10 (as claimed). With keys cached for a name at one degree, setup is
\* required for that name at any other degree, and a setup call that
\* returns leaves a key pair generated for its own degree.
C10_DegreeInvalidates ==
    /\ \A f \in CircuitHelper :
          (vk_exists(store, f.name) /\ read_vk(store, f.name).srs[1] # f.degree)
              => setup_required(store, f)
    /\ (last.op = "setup" /\ last.outcome = "Ok") =>
          read_vk(store, last.f.name).srs[1] = last.f.degree

\* C11. prove, prove_local and verify each invoke the engine at most once
\* per call and hand the engine's answer back unchanged: a call that
\* returned made exactly one engine call and its outcome is that call's
\* answer, a call that ended in the engine's error made no second attempt,
\* and every process of a distributed run leaves prove with the answer
\* create_proof_distributed gave.
C11_EngineOnceUnchanged ==
    /\ last.op \in {"prove", "prove_local", "verify"} => Len(last.engine) <= 1
    /\ (last.op \in {"prove", "prove_local", "verify"} /\ last.outcome \in {"Ok", "Err"}) =>
           /\ Len(last.engine) = 1
           /\ last.engine[1][2] = last.outcome
    /\ \A i \in Provers :
           /\ pc[i] = "Done" => session.res = "Ok"
           /\ pc[i] = "Failed" => session.res = "Err"

C11_Witness ==
    /\ last.op = "verify"
    /\ last.outcome = "Err"
    /\ last.engine = <<<<"verify_proof", "Err">>>>

C13_MismatchRejected ==
    (last.op = "verify" /\ verifier_artifacts_read(store, last.f)) =>
        LET vk == read_vk(store, last.f.name)
            proof == read_proof(store, last.f.name)
        IN  /\ (~proof.good \/ proof.key.cs # vk.cs) =>
                   /\ last.outcome = "Err"
                   /\ last.cause = "EngineFailure"
            /\ last.outcome = "Ok" => (proof.good /\ proof.key = vk)

C13_Witness ==
    /\ last.op = "verify"
    /\ verifier_artifacts_read(store, last.f)
    /\ read_proof(store, last.f.name).good
    /\ read_proof(store, last.f.name).key.cs # read_vk(store, last.f.name).cs
    /\ last.outcome = "Err"

\* C14. In a distributed run no process is past the engine call while
\* another process of the run has still to enter it or is inside it, and
\* the leader's proof write never happens before the engine call of every
\* process of the run has come back, with success or with an error.
C14_Barrier ==
    session.active =>
        /\ (\E i \in Provers : pc[i] \in {"Returned", "Done", "Failed"}) =>
               \A j \in Provers : pc[j] \notin {"Idle", "Computing"}
        /\ wrote[0] # {} =>
               \A j \in Provers : j < session.n => pc[j] \in {"Returned", "Done", "Failed"}

C14_Witness ==
    /\ session.active
    /\ session.n > 1
    /\ wrote[0] = {"proof"}
    /\ pc[0] = "Done"
    /\ \E j \in Provers : pc[j] = "Returned"

\* C15. When key generation fails during setup, setup ends fatally in that
\* step without a second key generation attempt and without having written
\* any of the four artifacts: the store is as it was before the call and
\* setup is still required afterwards.
C15_KeygenFailureWritesNothing ==
    [][(last'.op = "setup" /\ last'.cause = "EngineFailure") =>
          /\ last'.outcome = "Abort"
          /\ store' = store
          /\ last'.wrote = {}
          /\ setup_required(store', last'.f)
          /\ last'.engine \in {<<<<"keygen_vk", "Err">>>>,
                               <<<<"keygen_vk", "Ok">>, <<"keygen_pk", "Err">>>>}]_vars

C15_Witness ==
    /\ last.op = "setup"
    /\ last.cause = "EngineFailure"
    /\ last.engine = <<<<"keygen_vk", "Ok">>, <<"keygen_pk", "Err">>>>
    /\ last.pre = {"vk", "pk", "proof"}
    /\ setup_required(store, last.f)

\* C16. Only setup writes parameters and keys, and setup never writes a
\* proof: a step that changes a parameter, verifying key or proving key
\* entry is a step of setup, a step that changes a proof entry is a step of
\* prove or prove_local, and a step of verify changes no entry at all.
C16_WriteSets ==
    [][/\ (\/ store'.params # store.params
           \/ store'.vk # store.vk
           \/ store'.pk # store.pk) => last'.op = "setup"
       /\ store'.proof # store.proof => last'.op \in {"prove", "prove_local"}
       /\ last'.op \in {"prove", "prove_local"} =>
              /\ store'.params = store.params
              /\ store'.vk = store.vk
              /\ store'.pk = store.pk
              /\ last'.wrote \subseteq {"proof"}
       /\ last'.op = "setup" =>
              /\ store'.proof = store.proof
              /\ last'.wrote \subseteq SetupArtifacts
       /\ last'.op = "verify" => (store' = store /\ last'.wrote = {})]_vars

C16_Witness ==
    /\ last.op = "verify"
    /\ last.outcome = "Ok"
    /\ last.pre = SetupArtifacts \cup {"proof"}
    /\ Present(store, last.f) = last.pre

\* C17. A setup that starts with none of its four artifacts in the store and
\* is cut short after one, two or three of its four writes leaves
\* setup_required true, and a setup call of the same implementation made
\* next generates parameters and keys again and writes all four artifacts.
C17_InterruptedSetupRedone ==
    [][/\ (last'.op = "setup" /\ last'.cause = "Interrupted"
              /\ last'.pre \cap SetupArtifacts = {}) =>
             /\ setup_required(store', last'.f)
             /\ ~(SetupArtifacts \subseteq Present(store', last'.f))
       /\ (/\ last.op = "setup" /\ last.cause = "Interrupted"
           /\ last.pre \cap SetupArtifacts = {}
           /\ last'.op = "setup" /\ last'.f = last.f
           /\ last'.outcome = "Ok") =>
             /\ last'.wrote = SetupArtifacts
             /\ Len(last'.engine) = 2
             /\ SetupArtifacts \subseteq Present(store', last'.f)
             /\ ~setup_required(store', last'.f)]_vars

C17_Witness ==
    /\ last.op = "setup"
    /\ last.outcome = "Ok"
    /\ last.pre = {"params", "vparams", "vk"}
    /\ last.wrote = SetupArtifacts
    /\ ~setup_required(store, last.f)

\* C18. When two processes run setup at the same time for the same
\* implementation, each write replacing its entry atomically, then however
\* their existence checks and writes interleave, once both have returned
\* the store holds all four artifacts with exactly the contents a single
\* setup run from the same starting store leaves, and setup_required is
\* false.
C18_ConcurrentSetup ==
    (conc.active /\ \A p \in SetupProcs : sp[p].at = "done") =>
        /\ store = conc.expected
        /\ SetupArtifacts \subseteq Present(store, conc.f)
        /\ ~setup_required(store, conc.f)

C18_Witness ==
    /\ conc.active
    /\ \A p \in SetupProcs : sp[p].at = "done" /\ sp[p].k = Cardinality(SetupArtifacts)
    /\ last.pre = {"vk", "pk"}
    /\ store = conc.expected

============================================================================
